---- MODULE Spec2Model ----
(***************************************************************************)
(* A model of the stratisd engine core:                                    *)
(*   - StratEngine (src/engine/strat_engine/engine.rs): the pool registry  *)
(*     and its initialize / create_pool / destroy_pool / rename_pool /     *)
(*     teardown operations, with the pool metadata kept on the devices;    *)
(*   - MetadataVol (src/engine/strat_engine/mdv.rs): the filesystems       *)
(*     directory of one metadata volume and save_fs / rm_fs / check /      *)
(*     filesystems, with save_fs taken step by step so that a crash or an  *)
(*     I/O error can fall between any two of its system calls.             *)
(***************************************************************************)
EXTENDS Integers, Sequences, FiniteSets, TLC

\* ------------------------------------------------------------------ bounds
\* Number of pool UUIDs that can ever be generated.
MaxUuid == 2
\* Number of distinct pool names callers use.
MaxName == 3
\* Number of filesystem UUIDs on the metadata volume.
MaxFs == 1
\* Longest filesystem name in a snapshot, in bytes.
MaxLen == 2
\* Number of crashes and failed I/O calls in one run of the metadata volume.
MaxFaults == 1

PoolUuids == 1..MaxUuid
Names == 1..MaxName

\* Option<u16> redundancy argument: None, Some(code of a known scheme),
\* Some(code of no scheme).
Redundancies == {"none", "supported", "unsupported"}

VARIABLES
    engine,   \* "down" (no StratEngine value exists) or "up"
    pools,    \* StratEngine.pools: the Table<StratPool>, a set of [uuid, name]
    disk,     \* pool metadata on the block devices: uuid -> committed name
    before,   \* the registry as it was at the last teardown(), kept until the
              \* next call that can change a registry
    ret       \* the last engine call: its arguments and what it returned

evars == <<engine, pools, disk, before, ret>>

VARIABLES
    dir,      \* the filesystems/ directory of the MDV: file name -> bytes
    pc,       \* where the MetadataVol is: "idle", in save_fs at "write" or
              \* "rename", in teardown at "teardown", or "down" (no value)
    vol,      \* the volume: "mounted", "unmounted", or "removed" (device gone)
    cur,      \* the snapshot the running save_fs was given (none when idle)
    off,      \* bytes of it written to the temp file so far
    saved,    \* per filesystem UUID, the snapshot of its last completed save_fs
              \* (none before the first one and after rm_fs)
    faults,   \* crashes and failed I/O calls so far
    mret      \* the last MDV call: its argument and what it returned

mvars == <<dir, pc, vol, cur, off, saved, faults, mret>>
vars == <<engine, pools, disk, before, ret, dir, pc, vol, cur, off, saved, faults, mret>>

\* ------------------------------------------------------------ Table<T>
\* A pool as the registry sees it: HasUuid + HasName.
Pool(uuid, name) == [uuid |-> uuid, name |-> name]

contains_name(t, name) == \E p \in t : p.name = name

\* Option<&T> as a set with at most one element.
get_by_uuid(t, uuid) == {p \in t : p.uuid = uuid}

\* The table after remove_by_uuid; the removed entry is get_by_uuid(t, uuid).
remove_by_uuid(t, uuid) == {p \in t : p.uuid # uuid}

\* The entries insert() displaces: same UUID or same name.
evicted(t, pool) == {p \in t : p.uuid = pool.uuid \/ p.name = pool.name}

\* The table after insert().
insert(t, pool) == (t \ evicted(t, pool)) \cup {pool}

\* Table::empty(): all entries, the table is left empty.
empty(t) == t

uuids(t) == {p.uuid : p \in t}

\* ------------------------------------------------- pool metadata on disk
NoDisk == [u \in {} |-> 0]

\* StratPool::write_metadata / StratPool::initialize, succeeding: the devices
\* of pool.uuid now carry pool.name.
write_metadata(d, pool) ==
    [u \in (DOMAIN d) \cup {pool.uuid} |-> IF u = pool.uuid THEN pool.name ELSE d[u]]

\* StratPool::destroy, succeeding: the devices are wiped.
wipe(d, uuid) == [u \in (DOMAIN d) \ {uuid} |-> d[u]]

\* ------------------------------------------------------------- results
Ret(op, uuid, name, red, result, wrote, removed, setup, torn) ==
    [op |-> op, uuid |-> uuid, name |-> name, red |-> red, result |-> result,
     wrote |-> wrote, removed |-> removed, setup |-> setup, torn |-> torn]

\* ----------------------------------------------------- engine operations
\* calculate_redundancy!: TRUE iff a scheme results (None takes the default).
calculate_redundancy(red) == red # "unsupported"

\* What an engine operation yields: the registry and the devices afterwards,
\* the value returned, whether write_metadata() was called, and whether the
\* pool was taken out of the registry on the way.
Outcome(t, d, result, wrote, removed) ==
    [pools |-> t, disk |-> d, result |-> result, wrote |-> wrote, removed |-> removed]

\* StratEngine::create_pool. uuid is the UUID StratPool::initialize generates;
\* init_ok is whether DM::new() and StratPool::initialize succeed.
create_pool(t, d, name, red, uuid, init_ok) ==
    IF ~calculate_redundancy(red)
    THEN Outcome(t, d, "Invalid", FALSE, FALSE)
    ELSE IF contains_name(t, name)
    THEN Outcome(t, d, "AlreadyExists", FALSE, FALSE)
    ELSE IF ~init_ok
    THEN Outcome(t, d, "Err", FALSE, FALSE)
    ELSE Outcome(insert(t, Pool(uuid, name)), write_metadata(d, Pool(uuid, name)), "Ok", FALSE, FALSE)

\* destroy_pool! changed to report an unknown UUID as an error.
destroy_pool_not_found(t, d, uuid, td_ok) ==
    IF get_by_uuid(t, uuid) = {}
    THEN Outcome(t, d, "NotFound", FALSE, FALSE)
    ELSE IF td_ok
    THEN Outcome(remove_by_uuid(t, uuid), wipe(d, uuid), "Ok(true)", FALSE, TRUE)
    ELSE Outcome(remove_by_uuid(t, uuid), d, "Err", FALSE, TRUE)

\* destroy_pool! changed to put the pool back when its teardown fails.
destroy_pool_keeps_failed(t, d, uuid, td_ok) ==
    IF get_by_uuid(t, uuid) = {}
    THEN Outcome(t, d, "Ok(false)", FALSE, FALSE)
    ELSE IF td_ok
    THEN Outcome(remove_by_uuid(t, uuid), wipe(d, uuid), "Ok(true)", FALSE, TRUE)
    ELSE Outcome(t, d, "Err", FALSE, TRUE)

\* destroy_pool!: td_ok is whether the removed pool's teardown succeeds.
destroy_pool(t, d, uuid, td_ok) ==
    IF get_by_uuid(t, uuid) = {}
    THEN Outcome(t, d, "Ok(false)", FALSE, FALSE)
    ELSE IF td_ok
    THEN Outcome(remove_by_uuid(t, uuid), wipe(d, uuid), "Ok(true)", FALSE, TRUE)
    ELSE Outcome(remove_by_uuid(t, uuid), d, "Err", FALSE, TRUE)

\* rename_pool_pre!: the early returns of rename_pool, or "proceed".
rename_pool_pre(t, uuid, new_name) ==
    IF get_by_uuid(t, uuid) = {}
    THEN "NotFound"
    ELSE IF (CHOOSE p \in get_by_uuid(t, uuid) : TRUE).name = new_name
    THEN "Identity"
    ELSE IF contains_name(t, new_name)
    THEN "AlreadyExists"
    ELSE "proceed"

\* rename_pool changed to rename the entry where it sits, through
\* get_mut_by_uuid, with no look at the names in use.
rename_pool_in_place(t, d, uuid, new_name, wm_ok) ==
    IF get_by_uuid(t, uuid) = {}
    THEN Outcome(t, d, "NotFound", FALSE, FALSE)
    ELSE IF ~wm_ok
    THEN Outcome(t, d, "Err", TRUE, FALSE)
    ELSE Outcome({IF p.uuid = uuid THEN Pool(uuid, new_name) ELSE p : p \in t},
                 write_metadata(d, Pool(uuid, new_name)), "Renamed", TRUE, FALSE)

\* rename_pool changed to leave out pool.rename(&old_name) on the error path.
rename_pool_no_rollback(t, d, uuid, new_name, wm_ok) ==
    LET pre == rename_pool_pre(t, uuid, new_name) IN
    IF pre # "proceed"
    THEN Outcome(t, d, pre, FALSE, FALSE)
    ELSE LET rest == remove_by_uuid(t, uuid)
         IN  IF ~wm_ok
             THEN Outcome(insert(rest, Pool(uuid, new_name)), d, "Err", TRUE, TRUE)
             ELSE Outcome(insert(rest, Pool(uuid, new_name)),
                          write_metadata(d, Pool(uuid, new_name)), "Renamed", TRUE, TRUE)

\* rename_pool changed to leave out pool.write_metadata().
rename_pool_memory_only(t, d, uuid, new_name, wm_ok) ==
    LET pre == rename_pool_pre(t, uuid, new_name) IN
    IF pre # "proceed"
    THEN Outcome(t, d, pre, FALSE, FALSE)
    ELSE Outcome(insert(remove_by_uuid(t, uuid), Pool(uuid, new_name)), d, "Renamed", FALSE, TRUE)

\* rename_pool changed to go on when the new name is taken by another pool.
rename_pool_ignores_taken(t, d, uuid, new_name, wm_ok) ==
    LET pre == rename_pool_pre(t, uuid, new_name) IN
    IF pre \in {"NotFound", "Identity"}
    THEN Outcome(t, d, pre, FALSE, FALSE)
    ELSE LET old_name == (CHOOSE p \in get_by_uuid(t, uuid) : TRUE).name
             rest     == remove_by_uuid(t, uuid)
         IN  IF ~wm_ok
             THEN Outcome(insert(rest, Pool(uuid, old_name)), d, "Err", TRUE, TRUE)
             ELSE Outcome(insert(rest, Pool(uuid, new_name)),
                          write_metadata(d, Pool(uuid, new_name)), "Renamed", TRUE, TRUE)

\* rename_pool changed to go on when the new name is the current name.
rename_pool_no_identity(t, d, uuid, new_name, wm_ok) ==
    LET pre == rename_pool_pre(t, uuid, new_name) IN
    IF pre \in {"NotFound", "AlreadyExists"}
    THEN Outcome(t, d, pre, FALSE, FALSE)
    ELSE LET old_name == (CHOOSE p \in get_by_uuid(t, uuid) : TRUE).name
             rest     == remove_by_uuid(t, uuid)
         IN  IF ~wm_ok
             THEN Outcome(insert(rest, Pool(uuid, old_name)), d, "Err", TRUE, TRUE)
             ELSE Outcome(insert(rest, Pool(uuid, new_name)),
                          write_metadata(d, Pool(uuid, new_name)), "Renamed", TRUE, TRUE)

\* rename_pool changed to go on without the look-up of rename_pool_pre!.
rename_pool_no_lookup(t, d, uuid, new_name, wm_ok) ==
    IF contains_name(t, new_name)
    THEN Outcome(t, d, "AlreadyExists", FALSE, FALSE)
    ELSE IF get_by_uuid(t, uuid) = {}
    THEN Outcome(t, d, "panic", FALSE, TRUE)
    ELSE IF ~wm_ok
    THEN Outcome(t, d, "Err", TRUE, TRUE)
    ELSE Outcome(insert(remove_by_uuid(t, uuid), Pool(uuid, new_name)),
                 write_metadata(d, Pool(uuid, new_name)), "Renamed", TRUE, TRUE)

\* rename_pool changed to leave out self.pools.insert(pool) on the error path.
rename_pool_drops_on_error(t, d, uuid, new_name, wm_ok) ==
    LET pre == rename_pool_pre(t, uuid, new_name) IN
    IF pre # "proceed"
    THEN Outcome(t, d, pre, FALSE, FALSE)
    ELSE IF ~wm_ok
    THEN Outcome(remove_by_uuid(t, uuid), d, "Err", TRUE, TRUE)
    ELSE Outcome(insert(remove_by_uuid(t, uuid), Pool(uuid, new_name)),
                 write_metadata(d, Pool(uuid, new_name)), "Renamed", TRUE, TRUE)

\* StratEngine::rename_pool. wm_ok is whether pool.write_metadata() succeeds.
\* "panic" is the expect() of line 97 finding None.
rename_pool(t, d, uuid, new_name, wm_ok) ==
    LET pre == rename_pool_pre(t, uuid, new_name) IN
    IF pre # "proceed"
    THEN Outcome(t, d, pre, FALSE, FALSE)
    ELSE IF get_by_uuid(t, uuid) = {}
    THEN Outcome(t, d, "panic", FALSE, TRUE)
    ELSE LET old_name == (CHOOSE p \in get_by_uuid(t, uuid) : TRUE).name
             rest     == remove_by_uuid(t, uuid)
         IN  IF ~wm_ok
             THEN Outcome(insert(rest, Pool(uuid, old_name)), d, "Err", TRUE, TRUE)
             ELSE Outcome(insert(rest, Pool(uuid, new_name)),
                          write_metadata(d, Pool(uuid, new_name)), "Renamed", TRUE, TRUE)

\* teardown_pools: every pool is attempted, failed are those whose teardown
\* fails; an error is returned if any did.
teardown_pools(ps, failed) == IF uuids(ps) \cap failed = {} THEN "Ok" ELSE "Err"

\* The orders in which the loop of initialize() can visit the pools found.
Orders(S) == {o \in [1..Cardinality(S) -> S] : \A i, j \in DOMAIN o : o[i] = o[j] => i = j}

\* The loop of StratEngine::initialize over the pools find_all() returned,
\* visited in order `order`; StratPool::setup fails for the UUIDs in `bad`.
\* table: the registry so far; done: the pools set up so far in this call.
RECURSIVE initialize_loop(_, _, _, _, _)
initialize_loop(d, order, bad, table, done) ==
    IF order = <<>>
    THEN [result |-> "Ok", pools |-> table, setup |-> done, torn |-> {}]
    ELSE LET u    == Head(order)
             pool == Pool(u, d[u])
         IN  IF u \in bad
             THEN [result |-> "Err", pools |-> {}, setup |-> done, torn |-> {}]
             ELSE IF evicted(table, pool) # {}
             THEN [result |-> "Invalid", pools |-> {}, setup |-> done \cup {u},
                   torn |-> uuids(empty(insert(table, pool)))]
             ELSE initialize_loop(d, Tail(order), bad, insert(table, pool), done \cup {u})

\* ------------------------------------------------------- engine actions
\* StratEngine::initialize(); find_ok is whether find_all() succeeds.
Initialize(find_ok, order, bad) ==
    /\ engine = "down"
    /\ LET r == IF find_ok
                THEN initialize_loop(disk, order, bad, {}, {})
                ELSE [result |-> "Err", pools |-> {}, setup |-> {}, torn |-> {}]
       IN  /\ engine' = IF r.result = "Ok" THEN "up" ELSE "down"
           /\ pools' = r.pools
           /\ ret' = Ret("initialize", {}, {}, {}, r.result, FALSE, FALSE, r.setup, r.torn)
    /\ UNCHANGED <<disk, before>>

\* StratEngine::teardown(self): the engine is consumed whatever the result.
Teardown(failed) ==
    /\ engine = "up"
    /\ engine' = "down"
    /\ pools' = {}
    /\ before' = pools
    /\ ret' = Ret("teardown", {}, {}, {}, teardown_pools(empty(pools), failed), FALSE,
                  TRUE, {}, uuids(pools))
    /\ UNCHANGED disk

\* The UUIDs no pool in memory or on the devices has.
unused_uuids(t, d) == PoolUuids \ (uuids(t) \cup DOMAIN d)

\* Uuid::new_v4() in StratPool::initialize: a UUID no pool has. UUIDs are
\* opaque, so the least unused one stands for any of them.
new_uuids(t, d) ==
    IF unused_uuids(t, d) = {}
    THEN {}
    ELSE {CHOOSE u \in unused_uuids(t, d) : \A v \in unused_uuids(t, d) : u <= v}

CreatePool(name, red, init_ok) ==
    /\ engine = "up"
    /\ \E uuid \in (IF new_uuids(pools, disk) = {} THEN PoolUuids ELSE new_uuids(pools, disk)) :
         LET r == create_pool(pools, disk, name, red, uuid, init_ok) IN
         \* no pool can be provisioned once the UUIDs of the model are used up
         /\ r.result = "Ok" => uuid \in new_uuids(pools, disk)
         /\ pools' = r.pools
         /\ disk' = r.disk
         /\ ret' = Ret("create_pool", IF r.result = "Ok" THEN {uuid} ELSE {}, {name}, {red},
                       r.result, r.wrote, r.removed, {}, {})
    /\ before' = {}
    /\ UNCHANGED engine

DestroyPool(uuid, td_ok) ==
    /\ engine = "up"
    /\ LET r == destroy_pool(pools, disk, uuid, td_ok) IN
       /\ pools' = r.pools
       /\ disk' = r.disk
       /\ ret' = Ret("destroy_pool", {uuid}, {}, {}, r.result, r.wrote, r.removed, {}, {})
    /\ before' = {}
    /\ UNCHANGED engine

RenamePool(uuid, new_name, wm_ok) ==
    /\ engine = "up"
    /\ LET r == rename_pool(pools, disk, uuid, new_name, wm_ok) IN
       /\ pools' = r.pools
       /\ disk' = r.disk
       /\ ret' = Ret("rename_pool", {uuid}, {new_name}, {}, r.result, r.wrote, r.removed, {}, {})
    /\ before' = {}
    /\ UNCHANGED engine

EInit ==
    /\ engine = "down"
    /\ pools = {}
    /\ disk = NoDisk
    /\ before = {}
    /\ ret = Ret("none", {}, {}, {}, "Ok", FALSE, FALSE, {}, {})

\* =================================================================== MDV
FsUuids == 1..MaxFs
Letters == {"a"}
FsNames == UNION {[1..n -> Letters] : n \in 0..MaxLen}

\* FilesystemSave: what StratFilesystem::to_save() yields.
FilesystemSave == [uuid : FsUuids, name : FsNames]

\* ------------------------------------------------------------- paths
\* A path component "stem.ext" as <<stem, ext>>; ".temp" is <<"", "temp">>.
\* Two components are the same string iff the pairs are equal.
Component(stem, ext) == <<stem, ext>>

\* Uuid::simple().to_string()
simple(uuid) == ToString(uuid)

\* Path::with_extension on the last component.
with_extension(name, ext) == Component(name[1], ext)

\* save_fs / rm_fs: filesystems/<uuid>.json, and its .temp sibling.
json_path(uuid) == with_extension(Component(simple(uuid), ""), "json")
temp_path(uuid) == with_extension(json_path(uuid), "temp")

\* DirEntry::path(): the trailing components of mount_pt/filesystems/<name>.
entry_path(name) == <<Component("filesystems", ""), name>>

\* Path::ends_with(child): the components of child are the last components
\* of path, each compared whole.
ends_with(path, child) ==
    /\ Len(child) <= Len(path)
    /\ SubSeq(path, Len(path) - Len(child) + 1, Len(path)) = child

\* dir_e.path().ends_with(".temp"), the test of check() and filesystems().
is_temp_entry(name) == ends_with(entry_path(name), <<Component("", "temp")>>)

\* ----------------------------------------------------- serialization
\* serde_json::to_string(&fs.to_save()) as a sequence of bytes.
to_string(fs) == <<"{", simple(fs.uuid)>> \o fs.name \o <<"}">>

\* serde_json::from_slice: the snapshot the bytes are the document of, as a
\* set: empty when the bytes are no complete document (truncated, trailing
\* characters, or not an object at all).
from_slice(data) == {fs \in FilesystemSave : to_string(fs) = data}

\* ------------------------------------------------------ file system
NoFiles == [p \in {} |-> <<>>]

\* OpenOptions::new().write(true).create(true).open(path): creates an empty
\* file when there is none, and leaves an existing file's bytes in place.
open_create(d, path) == [p \in (DOMAIN d) \cup {path} |-> IF p \in DOMAIN d THEN d[p] ELSE <<>>]

\* One byte written at offset o of a file holding `bytes`.
write_at(bytes, o, b) == IF o < Len(bytes) THEN [bytes EXCEPT ![o + 1] = b] ELSE Append(bytes, b)

\* rename(from, to): replaces `to` atomically.
rename(d, from, to) ==
    [p \in ((DOMAIN d) \ {from}) \cup {to} |-> IF p = to THEN d[from] ELSE d[p]]

\* remove_file(path) on an existing file.
remove_file(d, path) == [p \in (DOMAIN d) \ {path} |-> d[p]]

\* ------------------------------------------------------ MDV operations
\* rm_fs changed to remove the .temp file instead of the .json file.
rm_fs_temp(d, uuid) == IF temp_path(uuid) \in DOMAIN d THEN remove_file(d, temp_path(uuid)) ELSE d

\* MetadataVol::rm_fs: the directory afterwards.
rm_fs(d, uuid) == IF json_path(uuid) \in DOMAIN d THEN remove_file(d, json_path(uuid)) ELSE d

\* check changed to remove the entries that fail the test instead of those
\* that pass it.
check_inverted(d, stuck) == [p \in {q \in DOMAIN d : ~(~is_temp_entry(q) /\ q \notin stuck)} |-> d[p]]

\* MetadataVol::check: the directory afterwards; removing fails for `stuck`.
check(d, stuck) == [p \in {q \in DOMAIN d : ~(is_temp_entry(q) /\ q \notin stuck)} |-> d[p]]

\* MetadataVol::filesystems: the entries it reads, and its result: "Err" when
\* one of them does not deserialize, else the Vec as a bag (snapshot -> count).
entries_read(d) == {p \in DOMAIN d : ~is_temp_entry(p)}
filesystems(d) ==
    IF \E p \in entries_read(d) : from_slice(d[p]) = {}
    THEN [result |-> "Err", list |-> <<>>]
    ELSE LET snap(p) == CHOOSE fs \in from_slice(d[p]) : TRUE
             found   == {snap(p) : p \in entries_read(d)}
         IN  [result |-> "Ok",
              list |-> [fs \in found |-> Cardinality({p \in entries_read(d) : snap(p) = fs})]]

MRet(op, uuid, result, list) == [op |-> op, uuid |-> uuid, result |-> result, list |-> list]
NoSnapshot == [u \in FsUuids |-> {}]

\* -------------------------------------------------------- MDV actions
\* save_fs, lines 68-81: serialize, then open the temp file. open_ok is
\* whether the open succeeds; when it does not, save_fs returns the error.
SaveFsOpen(fs, open_ok) ==
    /\ pc = "idle"
    /\ IF open_ok
       THEN /\ dir' = open_create(dir, temp_path(fs.uuid))
            /\ pc' = "write"
            /\ cur' = {fs}
            /\ mret' = MRet("save_fs", {fs.uuid}, "running", <<>>)
            /\ UNCHANGED faults
       ELSE /\ faults < MaxFaults
            /\ faults' = faults + 1
            /\ mret' = MRet("save_fs", {fs.uuid}, "Err", <<>>)
            /\ UNCHANGED <<dir, pc, cur>>
    /\ off' = 0
    /\ UNCHANGED <<vol, saved>>

\* save_fs, line 82: write_all, one byte reaching the file at a time.
SaveFsWrite ==
    /\ pc = "write"
    /\ \E fs \in cur :
        /\ off < Len(to_string(fs))
        /\ dir' = [dir EXCEPT ![temp_path(fs.uuid)] = write_at(@, off, to_string(fs)[off + 1])]
        /\ off' = off + 1
    /\ UNCHANGED <<pc, vol, cur, saved, faults, mret>>

\* save_fs, lines 85-87: flush, fsync, and the file is closed.
SaveFsSync ==
    /\ pc = "write"
    /\ \E fs \in cur : off = Len(to_string(fs))
    /\ pc' = "rename"
    /\ UNCHANGED <<dir, vol, cur, off, saved, faults, mret>>

\* save_fs, lines 89-91: rename the temp file over the .json file, return Ok.
SaveFsRename ==
    /\ pc = "rename"
    /\ \E fs \in cur :
        /\ dir' = rename(dir, temp_path(fs.uuid), json_path(fs.uuid))
        /\ saved' = [saved EXCEPT ![fs.uuid] = {fs}]
        /\ mret' = MRet("save_fs", {fs.uuid}, "Ok", <<>>)
    /\ pc' = "idle"
    /\ cur' = {}
    /\ off' = 0
    /\ UNCHANGED <<vol, faults>>

\* save_fs: one of write_all, flush, fsync, rename fails and try! returns
\* the error; the temp file stays as it is.
SaveFsErr ==
    /\ pc \in {"write", "rename"}
    /\ faults < MaxFaults
    /\ faults' = faults + 1
    /\ \E fs \in cur : mret' = MRet("save_fs", {fs.uuid}, "Err", <<>>)
    /\ pc' = "idle"
    /\ cur' = {}
    /\ off' = 0
    /\ UNCHANGED <<dir, vol, saved>>

\* The process dies and is started again: a running call is gone, the
\* volume is set up anew, the directory is as the system calls made so far
\* left it.
Crash ==
    /\ faults < MaxFaults
    /\ faults' = faults + 1
    /\ pc' = "idle"
    /\ vol' = "mounted"
    /\ cur' = {}
    /\ off' = 0
    /\ mret' = MRet("crash", {}, "none", <<>>)
    /\ UNCHANGED <<dir, saved>>

\* rm_fs changed to return the error of remove_file whatever its kind.
RmFs_not_found_fails(uuid, io_err) ==
    /\ pc = "idle"
    /\ IF io_err \/ json_path(uuid) \notin DOMAIN dir
       THEN /\ mret' = MRet("rm_fs", {uuid}, "Err", <<>>)
            /\ UNCHANGED <<dir, saved>>
       ELSE /\ dir' = rm_fs(dir, uuid)
            /\ saved' = [saved EXCEPT ![uuid] = {}]
            /\ mret' = MRet("rm_fs", {uuid}, "Ok", <<>>)
    /\ UNCHANGED <<pc, vol, cur, off, faults>>

\* MetadataVol::rm_fs; io_err is remove_file failing with an error other
\* than NotFound, which it can whether or not the file is there.
RmFs(uuid, io_err) ==
    /\ pc = "idle"
    /\ IF io_err
       THEN /\ faults < MaxFaults
            /\ faults' = faults + 1
            /\ mret' = MRet("rm_fs", {uuid}, "Err", <<>>)
            /\ UNCHANGED <<dir, saved>>
       ELSE /\ dir' = rm_fs(dir, uuid)
            /\ saved' = [saved EXCEPT ![uuid] = {}]
            /\ mret' = MRet("rm_fs", {uuid}, "Ok", <<>>)
            /\ UNCHANGED faults
    /\ UNCHANGED <<pc, vol, cur, off>>

\* MetadataVol::check; remove_file fails for the files in `stuck`.
Check(stuck) ==
    /\ pc = "idle"
    /\ dir' = check(dir, stuck)
    /\ mret' = MRet("check", {}, "Ok", <<>>)
    /\ UNCHANGED <<pc, vol, cur, off, saved, faults>>

\* MetadataVol::filesystems.
Filesystems ==
    /\ pc = "idle"
    /\ mret' = MRet("filesystems", {}, filesystems(dir).result, filesystems(dir).list)
    /\ UNCHANGED <<dir, pc, vol, cur, off, saved, faults>>

\* One step of MetadataVol::teardown and whether it succeeded.
Step(name, ok) == [step |-> name, ok |-> ok]

\* teardown changed to go on to the device after a failed unmount.
TeardownUnmountFs_no_try(unmount_ok) ==
    /\ pc = "idle"
    /\ vol' = IF unmount_ok THEN "unmounted" ELSE vol
    /\ pc' = "teardown"
    /\ mret' = MRet("teardown", {}, "running", <<Step("unmount_fs", unmount_ok)>>)
    /\ UNCHANGED <<dir, cur, off, saved, faults>>

\* MetadataVol::teardown, line 155: try!(unmount_fs(&self.mount_pt)). When
\* the unmount fails teardown returns the error; self is consumed.
TeardownUnmountFs(unmount_ok) ==
    /\ pc = "idle"
    /\ IF unmount_ok
       THEN /\ vol' = "unmounted"
            /\ pc' = "teardown"
            /\ mret' = MRet("teardown", {}, "running", <<Step("unmount_fs", TRUE)>>)
       ELSE /\ pc' = "down"
            /\ mret' = MRet("teardown", {}, "Err", <<Step("unmount_fs", FALSE)>>)
            /\ UNCHANGED vol
    /\ UNCHANGED <<dir, cur, off, saved, faults>>

\* MetadataVol::teardown, lines 156-158: try!(self.dev.teardown(dm)); Ok(()).
TeardownDev(dev_ok) ==
    /\ pc = "teardown"
    /\ vol' = IF dev_ok THEN "removed" ELSE vol
    /\ pc' = "down"
    /\ mret' = MRet("teardown", {},
                    IF dev_ok /\ \A i \in DOMAIN mret.list : mret.list[i].ok THEN "Ok" ELSE "Err",
                    Append(mret.list, Step("dev.teardown", dev_ok)))
    /\ UNCHANGED <<dir, cur, off, saved, faults>>

\* MetadataVol::setup: the volume is mounted and a new MetadataVol results.
Setup ==
    /\ pc = "down"
    /\ pc' = "idle"
    /\ vol' = "mounted"
    /\ mret' = MRet("setup", {}, "Ok", <<>>)
    /\ UNCHANGED <<dir, cur, off, saved, faults>>

MInit ==
    /\ dir = NoFiles
    /\ pc = "idle"
    /\ vol = "mounted"
    /\ cur = {}
    /\ off = 0
    /\ saved = NoSnapshot
    /\ faults = 0
    /\ mret = MRet("none", {}, "none", <<>>)

\* ------------------------------------------------------ specifications
Init == EInit /\ MInit

\* The engine, with every outcome of the calls it makes.
Next ==
    \/ \E order \in Orders(DOMAIN disk), bad \in SUBSET (DOMAIN disk) :
          Initialize(TRUE, order, bad) /\ UNCHANGED mvars
    \/ Initialize(FALSE, <<>>, {}) /\ UNCHANGED mvars
    \/ \E failed \in SUBSET uuids(pools) : Teardown(failed) /\ UNCHANGED mvars
    \/ \E name \in Names, red \in Redundancies, init_ok \in BOOLEAN :
          CreatePool(name, red, init_ok) /\ UNCHANGED mvars
    \/ \E uuid \in PoolUuids, td_ok \in BOOLEAN : DestroyPool(uuid, td_ok) /\ UNCHANGED mvars
    \/ \E uuid \in PoolUuids, new_name \in Names, wm_ok \in BOOLEAN :
          RenamePool(uuid, new_name, wm_ok) /\ UNCHANGED mvars

Spec == Init /\ [][Next]_vars

\* The engine when every device operation succeeds: what the restart tests
\* (test_setup, test_pool_rename) exercise.
NextRestart ==
    \/ \E order \in Orders(DOMAIN disk) : Initialize(TRUE, order, {}) /\ UNCHANGED mvars
    \/ Teardown({}) /\ UNCHANGED mvars
    \/ \E name \in Names, red \in Redundancies :
          CreatePool(name, red, TRUE) /\ UNCHANGED mvars
    \/ \E uuid \in PoolUuids, new_name \in Names :
          RenamePool(uuid, new_name, TRUE) /\ UNCHANGED mvars

SpecRestart == Init /\ [][NextRestart]_vars

\* One metadata volume, with crashes and I/O errors.
NextMdv ==
    \/ \E fs \in FilesystemSave, open_ok \in BOOLEAN : SaveFsOpen(fs, open_ok) /\ UNCHANGED evars
    \/ SaveFsWrite /\ UNCHANGED evars
    \/ SaveFsSync /\ UNCHANGED evars
    \/ SaveFsRename /\ UNCHANGED evars
    \/ Crash /\ UNCHANGED evars
    \/ SaveFsErr /\ UNCHANGED evars
    \/ \E uuid \in FsUuids, io_err \in BOOLEAN : RmFs(uuid, io_err) /\ UNCHANGED evars
    \/ \E stuck \in SUBSET (DOMAIN dir) : Check(stuck) /\ UNCHANGED evars
    \/ Filesystems /\ UNCHANGED evars
    \/ \E unmount_ok \in BOOLEAN : TeardownUnmountFs(unmount_ok) /\ UNCHANGED evars
    \/ \E dev_ok \in BOOLEAN : TeardownDev(dev_ok) /\ UNCHANGED evars
    \/ Setup /\ UNCHANGED evars

SpecMdv == Init /\ [][NextMdv]_vars


\* ================================================================ claims
\* A call of rename_pool(uuid, new_name), whatever write_metadata does.
RenameCall(uuid, new_name) == \E wm_ok \in BOOLEAN : RenamePool(uuid, new_name, wm_ok)

\* The name the registry holds for uuid (uuid is in the registry).
name_of(t, uuid) == (CHOOSE p \in get_by_uuid(t, uuid) : TRUE).name

\* C1: in every state the engine reaches through initialize, create_pool,
\* rename_pool (also when write_metadata fails and the name is rolled back),
\* destroy_pool and teardown, no two entries of the registry share a UUID and
\* no two share a name.
C1_Uniqueness ==
    \A p, q \in pools : (p.uuid = q.uuid \/ p.name = q.name) => p = q

\* C1 witness: a rename was rolled back with two pools in the registry.
C1_Witness ==
    /\ ret.op = "rename_pool" /\ ret.result = "Err" /\ ret.wrote
    /\ Cardinality(pools) = 2

\* C3: rename_pool(uuid, new_name) on an existing pool, new_name unused and
\* not the current name, with write_metadata failing: the error is returned,
\* the registry holds the pool under its UUID with the old name, new_name is
\* not in the registry and the old name is.
C3_RenameRollback ==
    [][\A uuid \in ret'.uuid, new_name \in ret'.name :
          (/\ ret'.op = "rename_pool"
           /\ RenamePool(uuid, new_name, FALSE)
           /\ get_by_uuid(pools, uuid) # {}
           /\ ~contains_name(pools, new_name))
          => (/\ ret'.result = "Err"
              /\ get_by_uuid(pools', uuid) = {Pool(uuid, name_of(pools, uuid))}
              /\ ~contains_name(pools', new_name)
              /\ contains_name(pools', name_of(pools, uuid)))]_vars

\* C3 witness: rename_pool called write_metadata, returned its error, and the
\* pool is in the registry under a name other than the one asked for.
C3_Witness ==
    /\ ret.op = "rename_pool" /\ ret.result = "Err" /\ ret.wrote
    /\ \E p \in pools : ret.uuid = {p.uuid} /\ ret.name # {p.name}

\* C4: when every create_pool, rename_pool, teardown and initialize succeeds,
\* the registry after initialize() holds the UUIDs the registry held at
\* teardown(), each with the name it had then (its last committed name).
C4_RestartEquivalence ==
    ret.op = "initialize" => (ret.result = "Ok" /\ engine = "up" /\ pools = before)

\* C4 witness: initialize() has brought back two pools.
C4_Witness ==
    /\ ret.op = "initialize" /\ engine = "up"
    /\ Cardinality(before) = 2 /\ Cardinality(pools) = 2

\* C8 (as claimed): create_pool with a name the registry already holds
\* returns AlreadyExists and leaves the registry and the devices unchanged,
\* whatever the other arguments are.
C8_DuplicateNameRejected ==
    [][\A name \in ret'.name :
          (/\ ret'.op = "create_pool"
           /\ \E red \in Redundancies, init_ok \in BOOLEAN : CreatePool(name, red, init_ok)
           /\ contains_name(pools, name))
          => (ret'.result = "AlreadyExists" /\ pools' = pools /\ disk' = disk)]_vars

\* C9: rename_pool(uuid, new_name) on an existing pool, new_name being the
\* name of another pool: AlreadyExists, write_metadata is not called, the
\* registry (so both pools' names) and the devices are unchanged.
C9_RenameToTakenName ==
    [][\A uuid \in ret'.uuid, new_name \in ret'.name :
          (/\ ret'.op = "rename_pool"
           /\ RenameCall(uuid, new_name)
           /\ get_by_uuid(pools, uuid) # {}
           /\ \E q \in pools : q.uuid # uuid /\ q.name = new_name)
          => (/\ ret'.result = "AlreadyExists"
              /\ ~ret'.wrote
              /\ pools' = pools
              /\ disk' = disk)]_vars

\* C9 witness: a rename_pool returned AlreadyExists with two pools present.
C9_Witness ==
    /\ ret.op = "rename_pool" /\ ret.result = "AlreadyExists"
    /\ \E p, q \in pools : p.uuid # q.uuid /\ ret.uuid = {p.uuid} /\ ret.name = {q.name}

\* C10: rename_pool(uuid, n) with n the pool's current name: Identity, the
\* pool is not taken out of the registry, write_metadata is not called, the
\* registry and the devices are unchanged.
C10_RenameIdentity ==
    [][\A uuid \in ret'.uuid, n \in ret'.name :
          (/\ ret'.op = "rename_pool"
           /\ RenameCall(uuid, n)
           /\ Pool(uuid, n) \in pools)
          => (/\ ret'.result = "Identity"
              /\ ~ret'.removed
              /\ ~ret'.wrote
              /\ pools' = pools
              /\ disk' = disk)]_vars

\* C10 witness: a rename_pool to the current name returned Identity.
C10_Witness ==
    /\ ret.op = "rename_pool" /\ ret.result = "Identity"
    /\ \E p \in pools : ret.uuid = {p.uuid} /\ ret.name = {p.name}

\* The bytes of <uuid>.json are the complete serialization of one snapshot
\* of that filesystem.
json_whole(d, uuid) ==
    \E fs \in FilesystemSave : fs.uuid = uuid /\ d[json_path(uuid)] = to_string(fs)

\* The snapshots held by the .json files of a directory, per filesystem UUID.
json_snapshots(d) ==
    [uuid \in {u \in FsUuids : json_path(u) \in DOMAIN d} |-> from_slice(d[json_path(uuid)])]

\* C2 (as claimed): whatever save_fs calls, crashes, restarts and check()
\* passes have happened, <uuid>.json is absent or is the complete
\* serialization of one snapshot; never truncated, partial or a mixture.
C2_JsonNeverTorn ==
    \A uuid \in FsUuids : json_path(uuid) \in DOMAIN dir => json_whole(dir, uuid)

\* C5 (as claimed): after a check() in which no removal fails, no <uuid>.temp
\* file is left in the directory.
C5_TempFilesRemoved ==
    [][(mret'.op = "check" /\ Check({})) => \A uuid \in FsUuids : temp_path(uuid) \notin DOMAIN dir']_vars

\* C6: check() leaves every .json file present with its bytes unchanged,
\* creates no .json file, and the snapshots read from the .json files are the
\* same before and after it.
C6_CheckKeepsCommitted ==
    [][(mret'.op = "check" /\ \E stuck \in SUBSET (DOMAIN dir) : Check(stuck))
          => (/\ \A uuid \in FsUuids :
                    /\ json_path(uuid) \in DOMAIN dir
                          => (/\ json_path(uuid) \in DOMAIN dir'
                              /\ dir'[json_path(uuid)] = dir[json_path(uuid)])
                    /\ json_path(uuid) \notin DOMAIN dir => json_path(uuid) \notin DOMAIN dir'
              /\ json_snapshots(dir') = json_snapshots(dir))]_vars

\* C6 witness: check() has run on a directory holding a .json file and a
\* .temp file.
C6_Witness ==
    /\ mret.op = "check"
    /\ \E u, v \in FsUuids : json_path(u) \in DOMAIN dir /\ temp_path(v) \in DOMAIN dir

\* C7: with no crash and no failed call so far, filesystems() returns Ok and
\* exactly one snapshot for each filesystem UUID whose last operation was a
\* save_fs, the snapshot of that save_fs, and none for any other UUID.
C7_RoundTrip ==
    (faults = 0 /\ mret.op = "filesystems")
        => (/\ mret.result = "Ok"
            /\ mret.list = [fs \in UNION {saved[u] : u \in FsUuids} |-> 1])

\* C7 witness: with no fault so far, filesystems() has returned the snapshot
\* of a completed save_fs, one with a name in it.
C7_Witness ==
    /\ faults = 0 /\ mret.op = "filesystems" /\ mret.result = "Ok"
    /\ \E u \in FsUuids : \E fs \in saved[u] : fs.name # <<>> /\ fs \in DOMAIN mret.list

\* A call of destroy_pool(uuid), whatever the pool's teardown does.
DestroyCall(uuid) == \E td_ok \in BOOLEAN : DestroyPool(uuid, td_ok)

\* C11: destroy_pool(uuid) for a UUID not in the registry returns Ok(false),
\* not an error, and changes neither the registry nor the devices; a
\* destroy_pool of the UUID the call before it destroyed returns Ok(false).
C11_DestroyAbsent ==
    [][\A uuid \in ret'.uuid :
          (ret'.op = "destroy_pool" /\ DestroyCall(uuid))
          => (/\ get_by_uuid(pools, uuid) = {}
                    => (ret'.result = "Ok(false)" /\ pools' = pools /\ disk' = disk)
              /\ (ret.op = "destroy_pool" /\ ret.uuid = {uuid}) => ret'.result = "Ok(false)")]_vars

\* C11 witness: destroy_pool has returned Ok(false) while another pool is in
\* the registry.
C11_Witness ==
    /\ ret.op = "destroy_pool" /\ ret.result = "Ok(false)"
    /\ pools # {} /\ ret.uuid \cap uuids(pools) = {}

\* C13: destroy_pool(uuid) for a pool in the registry whose teardown fails
\* returns an error, and afterwards the registry has no entry for uuid and
\* the pool's name is free.
C13_DestroyFailingTeardown ==
    [][\A uuid \in ret'.uuid :
          (/\ ret'.op = "destroy_pool"
           /\ DestroyPool(uuid, FALSE)
           /\ get_by_uuid(pools, uuid) # {})
          => (/\ ret'.result = "Err"
              /\ get_by_uuid(pools', uuid) = {}
              /\ ~contains_name(pools', name_of(pools, uuid)))]_vars

\* C13 witness: destroy_pool has returned an error for a pool whose devices
\* still carry its metadata, and the registry does not hold it.
C13_Witness ==
    /\ ret.op = "destroy_pool" /\ ret.result = "Err"
    /\ ret.uuid \subseteq DOMAIN disk /\ ret.uuid \cap uuids(pools) = {}

\* C14 (as claimed): when an insertion in initialize() evicts an entry,
\* initialize() returns Invalid, no engine, and teardown has been attempted
\* on every pool set up in the call, the evicted one included.
C14_CollisionTearsDownAll ==
    (ret.op = "initialize" /\ ret.result = "Invalid")
        => (engine = "down" /\ pools = {} /\ ret.setup \subseteq ret.torn)

\* C17 (as claimed): create_pool with a name the registry holds fails with
\* AlreadyExists for every redundancy argument, and Invalid is returned only
\* when the name is not in the registry.
C17_NameCheckedFirst ==
    [][\A name \in ret'.name :
          (/\ ret'.op = "create_pool"
           /\ \E red \in Redundancies, init_ok \in BOOLEAN : CreatePool(name, red, init_ok))
          => (/\ contains_name(pools, name) => ret'.result = "AlreadyExists"
              /\ ret'.result = "Invalid" => ~contains_name(pools, name))]_vars

\* C18: whatever the registry, the UUID and the new name, rename_pool returns
\* a RenameAction or an error: once its pre-check has passed, remove_by_uuid
\* finds the pool and the expect() does not fire.
C18_RenameNeverPanics ==
    ret.op = "rename_pool"
        => (/\ ret.result \in {"NotFound", "AlreadyExists", "Identity", "Renamed", "Err"}
            /\ ret.removed => ret.uuid \subseteq uuids(pools))

\* C18 witness: rename_pool has gone past its pre-check, taken the pool out
\* of the registry and returned Renamed.
C18_Witness ==
    ret.op = "rename_pool" /\ ret.removed /\ ret.result = "Renamed"

\* C19 (as claimed): when initialize() fails because StratPool::setup returns
\* an error, no engine results and teardown has been attempted on every pool
\* set up earlier in the call.
C19_SetupFailureLeaksNothing ==
    (ret.op = "initialize" /\ ret.result = "Err")
        => (engine = "down" /\ ret.setup \subseteq ret.torn)

\* C20: whatever rename_pool(uuid, new_name) returns, the registry holds the
\* same UUIDs after the call as before, every other pool has the name it
\* had, and the pool, if it was taken out of the registry, is back in it.
C20_RenameLosesNoPool ==
    [][\A uuid \in ret'.uuid, new_name \in ret'.name :
          (ret'.op = "rename_pool" /\ RenameCall(uuid, new_name))
          => (/\ uuids(pools') = uuids(pools)
              /\ \A p \in pools : p.uuid # uuid => p \in pools'
              /\ ret'.removed => uuid \in uuids(pools'))]_vars

\* C20 witness: with two pools in the registry, rename_pool has taken one
\* out, renamed it and put it back.
C20_Witness ==
    /\ ret.op = "rename_pool" /\ ret.removed /\ ret.result = "Renamed"
    /\ Cardinality(pools) = 2

\* C12: rm_fs(uuid) when there is no <uuid>.json, remove_file reporting just
\* that, returns Ok and leaves the directory as it was; when remove_file
\* fails in any other way rm_fs returns the error.
C12_RmFsAbsent ==
    [][\A uuid \in mret'.uuid :
          mret'.op = "rm_fs"
          => (/\ (RmFs(uuid, FALSE) /\ json_path(uuid) \notin DOMAIN dir)
                    => (mret'.result = "Ok" /\ dir' = dir)
              /\ RmFs(uuid, TRUE) => (mret'.result = "Err" /\ dir' = dir))]_vars

\* C12 witness: rm_fs has returned Ok for a UUID with no .json file, in a
\* directory that holds the UUID's .temp file.
C12_Witness ==
    /\ mret.op = "rm_fs" /\ mret.result = "Ok"
    /\ \A uuid \in mret.uuid : json_path(uuid) \notin DOMAIN dir /\ temp_path(uuid) \in DOMAIN dir

\* C15 (as claimed): every teardown call that has returned attempted both
\* steps, the unmount first and the device teardown second, and returned
\* an error when one of them failed.
C15_BothStepsAttempted ==
    (mret.op = "teardown" /\ pc = "down")
        => (/\ Len(mret.list) = 2
            /\ mret.list[1].step = "unmount_fs"
            /\ mret.list[2].step = "dev.teardown"
            /\ mret.result = "Err" <=> \E i \in DOMAIN mret.list : ~mret.list[i].ok)

\* C15 (amended): teardown attempts the unmount first; it attempts the
\* device teardown second, if and only if the unmount succeeded; the device
\* teardown is never attempted before or without a successful unmount; the
\* call returns an error exactly when a step it attempted failed.
C15_UnmountThenDevice ==
    mret.op = "teardown"
        => (/\ Len(mret.list) \in {1, 2}
            /\ mret.list[1].step = "unmount_fs"
            /\ \A i \in DOMAIN mret.list :
                  mret.list[i].step = "dev.teardown" => (i = 2 /\ mret.list[1].ok)
            /\ pc = "down" => (Len(mret.list) = 2 <=> mret.list[1].ok)
            /\ pc = "teardown" => (Len(mret.list) = 1 /\ mret.result = "running")
            /\ mret.result = "Err" <=> \E i \in DOMAIN mret.list : ~mret.list[i].ok
            /\ mret.result = "Ok" => (vol = "removed" /\ pc = "down"))

\* C15 witness: teardown has returned the error of a failed unmount without
\* touching the device.
C15_Witness ==
    /\ mret.op = "teardown" /\ pc = "down" /\ mret.result = "Err"
    /\ Len(mret.list) = 1 /\ vol = "mounted"

====
